---- MODULE Spec2Model ----
(***************************************************************************)
(* Model of scripts/ai/ollama_client.py, the Ollama client of the CustomOS *)
(* Guardian: one run of the script, from the import of the HTTP client to  *)
(* process exit.                                                           *)
(*                                                                         *)
(* Text is modelled as a sequence of symbols.  A symbol is either a single *)
(* character (" ", "\n", "a", a lone surrogate) or a whole word that the   *)
(* program never looks inside (a template line, a key name, a rendered     *)
(* number).  Standard input is a sequence of JSON lexemes.                 *)
(***************************************************************************)
EXTENDS Integers, Sequences, FiniteSets, TLC

(***************************************************************************)
(* Bounds of the model.                                                    *)
(***************************************************************************)
\* longest standard input, in lexemes, that is drawn from the whole alphabet
MaxStdinLen == 3
\* most characters in the text fields of one response body
MaxBodyChars == 3

(***************************************************************************)
(* Python values.  t is the Python type, s the text of a str (or the       *)
(* rendering of a number or of None), keys/vals the items of a dict in     *)
(* insertion order, vals the items of a list.                              *)
(***************************************************************************)
PyStr(s) == [t |-> "str", s |-> s, keys |-> <<>>, vals |-> <<>>]

\* an int, s its decimal digits
PyInt(digits) == [t |-> "int", s |-> digits, keys |-> <<>>, vals |-> <<>>]

PyNaN == [t |-> "float", s |-> <<"nan">>, keys |-> <<>>, vals |-> <<>>]

PyNone == [t |-> "NoneType", s |-> <<"None">>, keys |-> <<>>, vals |-> <<>>]

PyList(vals) == [t |-> "list", s |-> <<>>, keys |-> <<>>, vals |-> vals]

PyDict(keys, vals) == [t |-> "dict", s |-> <<>>, keys |-> keys, vals |-> vals]

EmptyDict == PyDict(<<>>, <<>>)

\* d[k] = v on a dict: a key already present keeps its place, its value is replaced
DictSet(d, k, v) ==
    IF \E i \in 1..Len(d.keys) : d.keys[i] = k
    THEN PyDict(d.keys, [i \in 1..Len(d.keys) |-> IF d.keys[i] = k THEN v ELSE d.vals[i]])
    ELSE PyDict(Append(d.keys, k), Append(d.vals, v))

HasKey(d, k) == \E i \in 1..Len(d.keys) : d.keys[i] = k

\* d.get(k, default)
DictGet(d, k, default) ==
    IF HasKey(d, k)
    THEN d.vals[CHOOSE i \in 1..Len(d.keys) : d.keys[i] = k]
    ELSE default

\* bool(v)
Truthy(v) ==
    CASE v.t = "str" -> v.s # <<>>
      [] v.t = "int" -> v.s # <<"0">>
      [] v.t = "float" -> TRUE
      [] v.t = "NoneType" -> FALSE
      [] v.t = "list" -> v.vals # <<>>
      [] v.t = "dict" -> v.keys # <<>>

(***************************************************************************)
(* Text helpers.                                                           *)
(***************************************************************************)
\* the eight spaces that indent the template in the source
INDENT == "        "

\* a lone surrogate: a character that stdout's encoding cannot encode
SURROGATE == "\\ud800"

Whitespace == {" ", "\n", INDENT}

RECURSIVE LStrip(_)
LStrip(s) == IF s # <<>> /\ Head(s) \in Whitespace THEN LStrip(Tail(s)) ELSE s

RECURSIVE RStrip(_)
RStrip(s) ==
    IF s # <<>> /\ s[Len(s)] \in Whitespace THEN RStrip(SubSeq(s, 1, Len(s) - 1)) ELSE s

\* str.strip()
Strip(s) == RStrip(LStrip(s))

RECURSIVE Join(_, _)
Join(sep, ss) ==
    IF ss = <<>> THEN <<>>
    ELSE IF Len(ss) = 1 THEN Head(ss)
    ELSE Head(ss) \o sep \o Join(sep, Tail(ss))

\* str.split("\n"): the lines of a text
RECURSIVE Lines(_)
Lines(s) ==
    IF \A i \in 1..Len(s) : s[i] # "\n" THEN <<s>>
    ELSE LET i == CHOOSE j \in 1..Len(s) :
                      s[j] = "\n" /\ \A k \in 1..(j - 1) : s[k] # "\n"
         IN <<SubSeq(s, 1, i - 1)>> \o Lines(SubSeq(s, i + 1, Len(s)))

Contains(s, sym) == \E i \in 1..Len(s) : s[i] = sym

\* the characters of repr(str): a line break is written as an escape
ReprChars(s) == [i \in 1..Len(s) |-> IF s[i] = "\n" THEN "\\n" ELSE s[i]]

RECURSIVE Repr(_)
Repr(v) ==
    CASE v.t = "str" -> <<"'">> \o ReprChars(v.s) \o <<"'">>
      [] v.t = "list" ->
            <<"[">> \o Join(<<", ">>, [i \in 1..Len(v.vals) |-> Repr(v.vals[i])]) \o <<"]">>
      [] v.t = "dict" ->
            <<"{">>
            \o Join(<<", ">>, [i \in 1..Len(v.keys) |->
                   Repr(PyStr(v.keys[i])) \o <<": ">> \o Repr(v.vals[i])])
            \o <<"}">>
      [] OTHER -> v.s

\* str(v), what an f-string substitutes for {v}
Str(v) == IF v.t = "str" THEN v.s ELSE Repr(v)

(***************************************************************************)
(* json.loads over a sequence of lexemes.                                  *)
(***************************************************************************)
StringLexemes == {"\"services\"", "\"memory\"", "\"cpu_load\"", "\"a\\nb\""}

\* the text of a string lexeme
StringValue(tok) ==
    CASE tok = "\"services\"" -> <<"services">>
      [] tok = "\"memory\"" -> <<"memory">>
      [] tok = "\"cpu_load\"" -> <<"cpu_load">>
      [] tok = "\"a\\nb\"" -> <<"a", "\n", "b">>

\* a byte sequence that is not UTF-8
UNDECODABLE == "\\xff"

Lexemes == {"{", "}", "[", "]", ":", ",", " ", "1", "NaN", "null", "not", UNDECODABLE}
           \cup StringLexemes

ParseFail == [ok |-> FALSE, val |-> PyNone, end |-> 0]

ParseOk(v, e) == [ok |-> TRUE, val |-> v, end |-> e]

At(s, i) == IF i \in 1..Len(s) THEN s[i] ELSE "EOF"

RECURSIVE SkipWs(_, _)
SkipWs(s, i) == IF At(s, i) = " " THEN SkipWs(s, i + 1) ELSE i

\* the end of the run of digits that starts at i: adjacent digits are one number
RECURSIVE SkipDigits(_, _)
SkipDigits(s, i) == IF At(s, i) = "1" THEN SkipDigits(s, i + 1) ELSE i

RECURSIVE ScanOnce(_, _)
RECURSIVE JSONObjectPairs(_, _, _)
RECURSIVE JSONArrayItems(_, _, _)

\* the members of an object, from the lexeme at i, which must be a key
JSONObjectPairs(s, i, d) ==
    IF At(s, i) \notin StringLexemes THEN ParseFail
    ELSE LET colon == SkipWs(s, i + 1) IN
         IF At(s, colon) # ":" THEN ParseFail
         ELSE LET r == ScanOnce(s, SkipWs(s, colon + 1)) IN
              IF ~r.ok THEN ParseFail
              ELSE LET d2 == DictSet(d, StringValue(s[i]), r.val)
                       j == SkipWs(s, r.end)
                   IN CASE At(s, j) = "}" -> ParseOk(d2, j + 1)
                        [] At(s, j) = "," -> JSONObjectPairs(s, SkipWs(s, j + 1), d2)
                        [] OTHER -> ParseFail

\* the items of an array, from the lexeme at i, which must start a value
JSONArrayItems(s, i, vals) ==
    LET r == ScanOnce(s, i) IN
    IF ~r.ok THEN ParseFail
    ELSE LET j == SkipWs(s, r.end) IN
         CASE At(s, j) = "]" -> ParseOk(PyList(Append(vals, r.val)), j + 1)
           [] At(s, j) = "," -> JSONArrayItems(s, SkipWs(s, j + 1), Append(vals, r.val))
           [] OTHER -> ParseFail

\* one JSON value starting exactly at i
ScanOnce(s, i) ==
    LET tok == At(s, i) IN
    CASE tok \in StringLexemes -> ParseOk(PyStr(StringValue(tok)), i + 1)
      [] tok = "{" ->
            LET j == SkipWs(s, i + 1) IN
            IF At(s, j) = "}" THEN ParseOk(EmptyDict, j + 1)
            ELSE JSONObjectPairs(s, j, EmptyDict)
      [] tok = "[" ->
            LET j == SkipWs(s, i + 1) IN
            IF At(s, j) = "]" THEN ParseOk(PyList(<<>>), j + 1)
            ELSE JSONArrayItems(s, j, <<>>)
      [] tok = "1" -> ParseOk(PyInt(SubSeq(s, i, SkipDigits(s, i) - 1)), SkipDigits(s, i))
      [] tok = "NaN" -> ParseOk(PyNaN, i + 1)
      [] tok = "null" -> ParseOk(PyNone, i + 1)
      [] OTHER -> ParseFail

\* json.loads(s): ok is FALSE where it raises
json_loads(s) ==
    LET r == ScanOnce(s, SkipWs(s, 1)) IN
    IF r.ok /\ SkipWs(s, r.end) = Len(s) + 1
    THEN [ok |-> TRUE, val |-> r.val]
    ELSE [ok |-> FALSE, val |-> PyNone]

(***************************************************************************)
(* Configuration (module level).                                           *)
(***************************************************************************)
OLLAMA_API_URL == "http://localhost:11434/api/generate"

OLLAMA_MODEL == "llama3"

\* seconds, the timeout argument of requests.post
RequestTimeout == 15

(***************************************************************************)
(* build_prompt.                                                           *)
(***************************************************************************)
\* the f-string of build_prompt after substitution, before dedent
Template(cpu, memory, services) ==
    <<"\n",
      INDENT, "You are the CustomOS Guardian, a concise monitoring assistant.", "\n",
      "\n",
      INDENT, "Your job:", "\n",
      INDENT, "  - Look at CPU, memory, and service status.", "\n",
      INDENT, "  - Respond with ONE or two short sentences.", "\n",
      INDENT, "  - If everything looks fine, say \"All systems green.\"", "\n",
      INDENT, "  - If any problem is detected, mention it explicitly", "\n",
      INDENT, "    (e.g., \"Issue detected in Plex service\").", "\n",
      "\n",
      INDENT, "Data (JSON):", "\n",
      INDENT, "CPU load:", " ">> \o cpu \o <<"\n",
      INDENT, "Memory:", " ">> \o memory \o <<"\n",
      INDENT, "Services:", " ">> \o services \o <<"\n",
      "\n",
      INDENT, "Respond with a short human-friendly verdict only, no JSON, no extra explanation.", "\n",
      INDENT>>

IsBlank(line) == \A i \in 1..Len(line) : line[i] \in {" ", INDENT}

\* textwrap.dedent: lines of blanks become empty; the indentation common to
\* all other lines is removed.  (No text of the model has a line that starts
\* with a single space, so the common indentation is INDENT or nothing.)
Dedent(text) ==
    LET ls == Lines(text)
        norm == [i \in 1..Len(ls) |-> IF IsBlank(ls[i]) THEN <<>> ELSE ls[i]]
        common == \A i \in 1..Len(norm) : norm[i] # <<>> => Head(norm[i]) = INDENT
    IN Join(<<"\n">>, [i \in 1..Len(norm) |->
            IF common /\ norm[i] # <<>> THEN Tail(norm[i]) ELSE norm[i]])

\* faulty variant: the values are returned without the template around them
build_prompt_values_only(metrics) ==
    LET services == DictGet(metrics, <<"services">>, EmptyDict)
        memory == DictGet(metrics, <<"memory">>, EmptyDict)
        cpu == DictGet(metrics, <<"cpu_load">>, EmptyDict)
    IN Strip(Str(cpu) \o <<"\n">> \o Str(memory) \o <<"\n">> \o Str(services))

\* build_prompt(metrics) for a dict; on any other value metrics.get raises
build_prompt(metrics) ==
    LET services == DictGet(metrics, <<"services">>, EmptyDict)
        memory == DictGet(metrics, <<"memory">>, EmptyDict)
        cpu == DictGet(metrics, <<"cpu_load">>, EmptyDict)
    IN Strip(Dedent(Template(Str(cpu), Str(memory), Str(services))))

\* metrics.get raises AttributeError unless metrics is a dict
BuildPromptRaises(metrics) == metrics.t # "dict"

(***************************************************************************)
(* call_ollama.                                                            *)
(***************************************************************************)
\* faulty variant: the request is sent a second time
PostRequestsRetried(prompt) ==
    LET req == [url |-> OLLAMA_API_URL,
                json |-> [model |-> OLLAMA_MODEL, prompt |-> prompt, stream |-> FALSE],
                timeout |-> RequestTimeout]
    IN <<req, req>>

\* the requests.post calls of one call_ollama(prompt)
PostRequests(prompt) ==
    << [url |-> OLLAMA_API_URL,
        json |-> [model |-> OLLAMA_MODEL, prompt |-> prompt, stream |-> FALSE],
        timeout |-> RequestTimeout] >>

\* faulty variant: the status is never examined
raise_for_status_never(status) == FALSE

\* resp.raise_for_status() raises on a client or server error status
raise_for_status(status) == 400 <= status /\ status < 600

\* faulty variant: the two keys are tried in the other order
SelectTextFallbackFirst(data) ==
    LET r == DictGet(data, <<"response">>, PyNone)
        t == DictGet(data, <<"text">>, PyNone)
    IN IF Truthy(t) THEN t
       ELSE IF Truthy(r) THEN r
       ELSE PyStr(<<>>)

\* data.get("response") or data.get("text") or ""
SelectText(data) ==
    LET r == DictGet(data, <<"response">>, PyNone)
        t == DictGet(data, <<"text">>, PyNone)
    IN IF Truthy(r) THEN r
       ELSE IF Truthy(t) THEN t
       ELSE PyStr(<<>>)

\* the value call_ollama returns when the endpoint behaves as r
call_ollama(r) ==
    IF r.kind # "http" THEN <<>>
    ELSE IF raise_for_status(r.status) THEN <<>>
    ELSE IF ~r.json_ok THEN <<>>
    ELSE IF r.data.t # "dict" THEN <<>>
    ELSE LET text == SelectText(r.data) IN
         IF text.t # "str" THEN <<>> ELSE Strip(text.s)

(***************************************************************************)
(* main.                                                                   *)
(***************************************************************************)
\* faulty variant: a failed import is ignored
ImportOutcomeIgnored(available) == "main"

\* what becomes of the process after the guarded import of requests
ImportOutcome(available) == IF available THEN "main" ELSE "exited"

\* faulty variant: the text read is parsed as it is
RawAsIs(raw) == raw

\* raw or "{}"
RawOrDefault(raw) == IF raw = <<>> THEN <<"{", "}">> ELSE raw

\* sys.stdin.read() raises UnicodeDecodeError on bytes that are not UTF-8
ReadRaises(input) == Contains(input, UNDECODABLE)

\* encoding the text for stdout raises UnicodeEncodeError on a lone surrogate
PrintRaises(text) == Contains(text, SURROGATE)

\* faulty variant: the verdict is printed without the test
MainOutputAlways(verdict) == verdict \o <<"\n">>

\* what "if verdict: print(verdict)" writes
MainOutput(verdict) == IF verdict # <<>> THEN verdict \o <<"\n">> ELSE <<>>

(***************************************************************************)
(* The inputs of a run.                                                    *)
(***************************************************************************)
SeqsUpTo(S, n) == UNION {[1..k -> S] : k \in 0..n}

ValueSamples ==
    { <<"{", "}">>, <<"1">>, <<"NaN">>, <<"null">>, <<"[", "1", "]">>,
      <<"\"a\\nb\"">>, <<"{", "\"memory\"", ":", "1", "}">> }

ObjectSamples ==
    { <<"{", k, ":">> \o v \o <<"}">> :
          k \in {"\"services\"", "\"memory\"", "\"cpu_load\""}, v \in ValueSamples }
    \cup { <<"{", "\"cpu_load\"", ":", "1", ",", "\"memory\"", ":", "null", "}">>,
           <<"{", "\"memory\"", ":", "1", ",", "\"memory\"", ":", "{", "}", "}">>,
           <<"{", "\"memory\"", ":", "1", ",", "}">>,
           <<"[", "{", "}", ",", "NaN", "]">>,
           <<"{", "\"services\"", ":", "{", "\"a\\nb\"", ":", "1", "}", ",",
             "\"memory\"", ":", "{", "}", ",", " ", "\"cpu_load\"", ":", "[", "]", "}">> }

StdinContents == SeqsUpTo(Lexemes, MaxStdinLen) \cup ObjectSamples

Chars == {"a", " ", "\n", SURROGATE}

\* what a response body may hold under one key
Absent == [present |-> FALSE, val |-> PyNone]

Present(v) == [present |-> TRUE, val |-> v]

FieldChoices(n) ==
    {Absent, Present(PyInt(<<"5">>)), Present(PyInt(<<"0">>)), Present(PyNone)}
    \cup {Present(PyStr(s)) : s \in SeqsUpTo(Chars, n)}

FieldLen(f) == IF f.present /\ f.val.t = "str" THEN Len(f.val.s) ELSE 0

BodyOf(r, t) ==
    LET d1 == IF r.present THEN DictSet(EmptyDict, <<"response">>, r.val) ELSE EmptyDict
    IN IF t.present THEN DictSet(d1, <<"text">>, t.val) ELSE d1

BodiesUpTo(n) ==
    { BodyOf(p[1], p[2]) :
        p \in {q \in FieldChoices(n) \X FieldChoices(n) : FieldLen(q[1]) + FieldLen(q[2]) <= n} }
    \cup { PyDict(<< <<"error">> >>, <<PyStr(<<"a">>)>>), PyList(<<>>), PyStr(<<"a">>) }

NoResponse == [kind |-> "none", status |-> 0, json_ok |-> FALSE, data |-> PyNone]

HttpResponse(status, ok, data) ==
    [kind |-> "http", status |-> status, json_ok |-> ok, data |-> data]

\* how the endpoint may answer the POST
Responses ==
    { [kind |-> k, status |-> 0, json_ok |-> FALSE, data |-> PyNone] :
          k \in {"ConnectionError", "Timeout"} }
    \cup { HttpResponse(st, FALSE, PyNone) : st \in {200, 300, 404, 500} }
    \cup { HttpResponse(200, TRUE, b) : b \in BodiesUpTo(MaxBodyChars) }
    \cup { HttpResponse(st, TRUE, b) : st \in {300, 404, 500}, b \in BodiesUpTo(1) }

(***************************************************************************)
(* The run of the script.                                                  *)
(***************************************************************************)
VARIABLES
    pc,                 \* where the process is
    requests_available, \* whether "import requests" succeeds
    stdin,              \* the content of standard input
    raw,                \* main: the text read
    metrics,            \* main: the parsed value
    prompt,             \* main: the prompt
    resp,               \* how the endpoint answered
    verdict,            \* main: the verdict
    posts,              \* the HTTP POST requests issued, in order
    stdout,             \* what was written to standard output
    stderr,             \* the uncaught exception reported, if any
    exit_code,          \* the exit status, -1 while running
    calls               \* the operations performed, in order

vars == <<pc, requests_available, stdin, raw, metrics, prompt, resp, verdict,
          posts, stdout, stderr, exit_code, calls>>

Init ==
    /\ pc = "import"
    /\ requests_available \in BOOLEAN
    /\ stdin \in StdinContents
    /\ raw = <<>>
    /\ metrics = PyNone
    /\ prompt = <<>>
    /\ resp = NoResponse
    /\ verdict = <<>>
    /\ posts = <<>>
    /\ stdout = <<>>
    /\ stderr = <<>>
    /\ exit_code = -1
    /\ calls = <<>>

\* sys.exit(0), or falling off the end of the script
Exit0 == pc' = "exited" /\ exit_code' = 0 /\ stderr' = stderr

\* an exception nobody catches: traceback on stderr, exit status 1
Uncaught(exc) == pc' = "exited" /\ exit_code' = 1 /\ stderr' = <<exc>>

\* lines 20-24 (and 27-28, 99-100 when the import succeeds)
ImportRequests ==
    /\ pc = "import"
    /\ IF ImportOutcome(requests_available) = "exited"
       THEN Exit0
       ELSE pc' = "main" /\ exit_code' = exit_code /\ stderr' = stderr
    /\ UNCHANGED <<requests_available, stdin, raw, metrics, prompt, resp, verdict,
                   posts, stdout, calls>>

\* lines 86-91
ReadInput ==
    /\ pc = "main"
    /\ IF ReadRaises(stdin)
       THEN /\ Exit0
            /\ calls' = Append(calls, "stdin.read")
            /\ UNCHANGED <<raw, metrics>>
       ELSE LET r == json_loads(RawOrDefault(stdin)) IN
            /\ raw' = stdin
            /\ calls' = calls \o <<"stdin.read", "json.loads">>
            /\ IF r.ok
               THEN /\ metrics' = r.val
                    /\ pc' = "build_prompt"
                    /\ UNCHANGED <<exit_code, stderr>>
               ELSE /\ Exit0
                    /\ UNCHANGED metrics
    /\ UNCHANGED <<requests_available, stdin, prompt, resp, verdict, posts, stdout>>

\* line 93
BuildPrompt ==
    /\ pc = "build_prompt"
    /\ calls' = Append(calls, "build_prompt")
    /\ IF BuildPromptRaises(metrics)
       THEN /\ Uncaught("AttributeError")
            /\ UNCHANGED prompt
       ELSE /\ prompt' = build_prompt(metrics)
            /\ pc' = "call_ollama"
            /\ UNCHANGED <<exit_code, stderr>>
    /\ UNCHANGED <<requests_available, stdin, raw, metrics, resp, verdict, posts, stdout>>

\* line 94
CallOllama ==
    /\ pc = "call_ollama"
    /\ \E r \in Responses :
          /\ resp' = r
          /\ verdict' = call_ollama(r)
    /\ posts' = posts \o PostRequests(prompt)
    /\ calls' = calls \o [i \in 1..Len(PostRequests(prompt)) |-> "requests.post"]
    /\ pc' = "print"
    /\ UNCHANGED <<requests_available, stdin, raw, metrics, prompt, stdout, stderr, exit_code>>

\* lines 95-96, then the end of the script
PrintVerdict ==
    /\ pc = "print"
    /\ IF MainOutput(verdict) = <<>>
       THEN /\ Exit0
            /\ UNCHANGED <<stdout, calls>>
       ELSE /\ calls' = Append(calls, "print")
            /\ IF PrintRaises(MainOutput(verdict))
               THEN /\ Uncaught("UnicodeEncodeError")
                    /\ UNCHANGED stdout
               ELSE /\ stdout' = stdout \o MainOutput(verdict)
                    /\ Exit0
    /\ UNCHANGED <<requests_available, stdin, raw, metrics, prompt, resp, verdict, posts>>

Next ==
    \/ ImportRequests
    \/ ReadInput
    \/ BuildPrompt
    \/ CallOllama
    \/ PrintVerdict

Spec == Init /\ [][Next]_vars

(***************************************************************************)
(* Vocabulary of the properties.                                           *)
(***************************************************************************)
Called(name) == Contains(calls, name)

CountCalls(name) == Cardinality({i \in 1..Len(calls) : calls[i] = name})

\* the position of the first call of that name; 0 when there is none
FirstCall(name) ==
    IF Called(name)
    THEN CHOOSE i \in 1..Len(calls) : calls[i] = name /\ \A j \in 1..(i - 1) : calls[j] # name
    ELSE 0

\* exactly one line: one line terminator, at the end
OneLine(text) ==
    /\ text # <<>>
    /\ text[Len(text)] = "\n"
    /\ \A i \in 1..(Len(text) - 1) : text[i] # "\n"

\* JSON as the standard defines it; NaN is an extension of Python's parser
ValidJSON(text) ==
    /\ ~ReadRaises(text)
    /\ json_loads(text).ok
    /\ ~Contains(text, "NaN")

\* the run has read standard input and it parsed, to a value that is not an object
ParsedNonObject ==
    /\ Called("json.loads")
    /\ json_loads(RawOrDefault(raw)).ok
    /\ json_loads(RawOrDefault(raw)).val.t # "dict"

\* the input was unreadable or rejected by the parser
InputRejected == ReadRaises(stdin) \/ ~json_loads(RawOrDefault(stdin)).ok

Answered == resp.kind # "none"

Unreachable == resp.kind \in {"ConnectionError", "Timeout"}

\* the body is not JSON, not an object, has neither key, or holds something
\* other than text under the key that is used
MalformedBody ==
    /\ resp.kind = "http"
    /\ \/ ~resp.json_ok
       \/ resp.data.t # "dict"
       \/ ~HasKey(resp.data, <<"response">>) /\ ~HasKey(resp.data, <<"text">>)
       \/ LET primary == DictGet(resp.data, <<"response">>, PyNone)
              fallback == DictGet(resp.data, <<"text">>, PyNone)
          IN \/ Truthy(primary) /\ primary.t # "str"
             \/ ~Truthy(primary) /\ Truthy(fallback) /\ fallback.t # "str"

\* ---------------------------------------------------------------------------
\* C1: every terminal state of the process has exit code 0.
\* Stated as the claim states it; the code violates it.
C1_ExitCodeAlwaysZero == pc = "exited" => exit_code = 0

\* ---------------------------------------------------------------------------
\* C2: when standard input parses to a JSON value that is not an object, the
\* run ends with exit code 0 and no output, and neither build_prompt nor the
\* request is reached.  Stated as the claim states it; the code violates it.
C2_NonObjectIsParseError ==
    (ParsedNonObject /\ pc = "exited") =>
        /\ exit_code = 0
        /\ stdout = <<>>
        /\ ~Called("build_prompt")
        /\ ~Called("requests.post")

\* ---------------------------------------------------------------------------
\* C3 as stated: stdout is empty or exactly one line; whenever a non-empty
\* verdict was obtained it is exactly one line holding the verdict, whatever
\* the response text; with an empty verdict nothing is written.
C3_StdoutEmptyOrOneLine ==
    pc = "exited" =>
        /\ stdout = <<>> \/ OneLine(stdout)
        /\ verdict # <<>> => OneLine(stdout) /\ stdout = verdict \o <<"\n">>
        /\ verdict = <<>> => stdout = <<>>

\* the failure paths C3 lists
C3_FailurePath ==
    \/ ~requests_available
    \/ InputRejected
    \/ Answered /\ (Unreachable \/ raise_for_status(resp.status) \/ MalformedBody)
    \/ verdict = <<>>

\* C3 as amended: stdout is empty or exactly the verdict followed by one line
\* terminator.  A non-empty verdict that stdout can encode is written verbatim,
\* so stdout is a single line exactly when the verdict has no line break inside
\* it; on every failure path, and for a verdict that cannot be encoded, nothing
\* is written.  Nothing is written before the process ends.
C3_StdoutEmptyOrVerdict ==
    /\ pc # "exited" => stdout = <<>>
    /\ pc = "exited" =>
        /\ stdout \in {<<>>, verdict \o <<"\n">>}
        /\ (verdict # <<>> /\ ~PrintRaises(verdict)) =>
              /\ stdout = verdict \o <<"\n">>
              /\ OneLine(stdout) <=> ~Contains(verdict, "\n")
        /\ (C3_FailurePath \/ PrintRaises(verdict)) => stdout = <<>>

\* a verdict of two lines was printed
C3_Witness ==
    /\ pc = "exited"
    /\ Contains(verdict, "\n")
    /\ stdout = verdict \o <<"\n">>
    /\ ~OneLine(stdout)

\* ---------------------------------------------------------------------------
\* C4: standard input that is not empty and is not valid JSON, or cannot be
\* decoded, ends the run with no output and exit code 0.
\* Stated as the claim states it; the code violates it.
C4_InvalidJsonExitsSilently ==
    (pc = "exited" /\ requests_available /\ stdin # <<>> /\ ~ValidJSON(stdin)) =>
        /\ stdout = <<>>
        /\ exit_code = 0

\* ---------------------------------------------------------------------------
\* C5 as stated: when the request fails (unreachable, timeout, a status that
\* is not 2xx, a body that is not JSON or not of the expected shape) the
\* verdict is empty, nothing is printed and the exit code is 0.
C5_RequestFailureIsEmpty ==
    (Answered /\ (Unreachable \/ resp.status \notin 200..299 \/ MalformedBody)) =>
        /\ verdict = <<>>
        /\ pc = "exited" => stdout = <<>> /\ exit_code = 0

\* C5 as amended: the same, where the failing statuses are the client and
\* server error statuses (4xx and 5xx), the ones raise_for_status raises on.
C5_RequestErrorIsEmpty ==
    (Answered /\ (Unreachable \/ resp.status \in 400..599 \/ MalformedBody)) =>
        /\ verdict = <<>>
        /\ pc = "exited" => stdout = <<>> /\ exit_code = 0

\* a server error whose body carries a response text: nothing printed
C5_Witness ==
    /\ pc = "exited"
    /\ resp.kind = "http" /\ resp.status = 500 /\ resp.json_ok
    /\ resp.data.t = "dict"
    /\ DictGet(resp.data, <<"response">>, PyNone) = PyStr(<<"a">>)
    /\ verdict = <<>>
    /\ stdout = <<>>
    /\ exit_code = 0

\* ---------------------------------------------------------------------------
\* C6: a run on empty standard input and a run on the input {} go the same
\* way: both parse to the empty mapping, build the prompt of the empty mapping,
\* issue the one request carrying it, and end with the stdout and exit code
\* that the endpoint's answer alone determines.
C6_EmptyInputLikeEmptyObject ==
    (requests_available /\ stdin \in {<<>>, <<"{", "}">>}) =>
        /\ pc \in {"build_prompt", "call_ollama", "print", "exited"} => metrics = EmptyDict
        /\ pc \in {"call_ollama", "print", "exited"} => prompt = build_prompt(EmptyDict)
        /\ pc \in {"print", "exited"} =>
              /\ Len(posts) = 1
              /\ posts[1].json.prompt = build_prompt(EmptyDict)
              /\ verdict = call_ollama(resp)
        /\ pc = "exited" =>
              /\ Called("requests.post")
              /\ stdout = (IF PrintRaises(verdict) THEN <<>> ELSE MainOutput(verdict))
              /\ exit_code = (IF verdict # <<>> /\ PrintRaises(verdict) THEN 1 ELSE 0)

\* a run on empty input that printed a verdict
C6_Witness ==
    /\ stdin = <<>>
    /\ pc = "exited"
    /\ metrics = EmptyDict
    /\ Len(posts) = 1
    /\ stdout # <<>>

\* ---------------------------------------------------------------------------
\* C7: without the HTTP client the process exits at once with code 0 and no
\* output; stdin is not read, no prompt is built, no request is issued.
C7_MissingDependencyExitsFirst ==
    (~requests_available /\ pc # "import") =>
        /\ pc = "exited"
        /\ exit_code = 0
        /\ stdout = <<>>
        /\ stderr = <<>>
        /\ calls = <<>>
        /\ posts = <<>>
        /\ raw = <<>> /\ prompt = <<>>

C7_Witness ==
    /\ ~requests_available
    /\ pc = "exited"
    /\ stdin # <<>>
    /\ calls = <<>>

\* ---------------------------------------------------------------------------
\* C8: for every JSON object as metrics, build_prompt does not fail and returns
\* a non-empty text holding "CPU load:", "Memory:" and "Services:".
C8_PromptHasLabels ==
    (Called("build_prompt") /\ metrics.t = "dict") =>
        /\ stderr = <<>> \/ Called("print")
        /\ pc \in {"call_ollama", "print", "exited"}
        /\ prompt # <<>>
        /\ Contains(prompt, "CPU load:")
        /\ Contains(prompt, "Memory:")
        /\ Contains(prompt, "Services:")

\* a prompt was built from an object whose cpu_load is not a mapping
C8_Witness ==
    /\ pc = "call_ollama"
    /\ metrics.t = "dict"
    /\ HasKey(metrics, <<"cpu_load">>)
    /\ DictGet(metrics, <<"cpu_load">>, EmptyDict).t = "NoneType"
    /\ Contains(prompt, "None")

\* ---------------------------------------------------------------------------
\* C9: on a 2xx response whose body is a JSON object, the verdict is the
\* trimmed text under "response" when that key holds a non-empty text,
\* whatever "text" holds; the trimmed text under "text" when "response" is
\* absent and "text" holds a text; and empty, with nothing printed, when
\* neither key is present.
C9_VerdictByPriority ==
    (Answered /\ resp.kind = "http" /\ resp.status \in 200..299 /\ resp.json_ok
       /\ resp.data.t = "dict") =>
        LET primary == DictGet(resp.data, <<"response">>, PyNone)
            fallback == DictGet(resp.data, <<"text">>, PyNone)
        IN /\ (primary.t = "str" /\ primary.s # <<>>) => verdict = Strip(primary.s)
           /\ (~HasKey(resp.data, <<"response">>) /\ fallback.t = "str") =>
                 verdict = Strip(fallback.s)
           /\ (~HasKey(resp.data, <<"response">>) /\ ~HasKey(resp.data, <<"text">>)) =>
                 /\ verdict = <<>>
                 /\ pc = "exited" => stdout = <<>>

\* both keys hold text, the primary one padded: the verdict is the primary, trimmed
C9_Witness ==
    /\ pc = "exited"
    /\ resp.kind = "http" /\ resp.json_ok /\ resp.data.t = "dict"
    /\ HasKey(resp.data, <<"response">>) /\ HasKey(resp.data, <<"text">>)
    /\ DictGet(resp.data, <<"response">>, PyNone).s = <<" ", "a">>
    /\ DictGet(resp.data, <<"text">>, PyNone).t = "str"
    /\ Strip(DictGet(resp.data, <<"text">>, PyNone).s) = <<>>
    /\ verdict = <<"a">>
    /\ stdout = <<"a", "\n">>

====
